---- MODULE Spec2Model ----
(***************************************************************************)
(* A model of the authentication screens of the Expo / Clerk starter:      *)
(* the unified continue flow (app/(auth)/continue.tsx), the classic        *)
(* sign-in, sign-up and verify screens, the SSO buttons, the welcome       *)
(* screen and the auth-group layout, and the profile handlers that delete  *)
(* contact methods and connect external accounts.                          *)
(*                                                                         *)
(* The identity provider's SDK is the environment: every SDK call is a     *)
(* promise that is started by one action and settled by another, with the  *)
(* outcome (resolved with a status, rejected with an API error list,       *)
(* rejected with a non-API error) chosen nondeterministically.             *)
(***************************************************************************)
EXTENDS Integers, FiniteSets, Sequences, TLC

\* ------------------------------------------------------------------ bounds
MaxErrors == 2       \* errors carried by one rejected API response
MaxInFlight == 2     \* promises in flight that no loading flag gates
MaxEmails == 2       \* e-mail addresses on the profile
MaxPhones == 1       \* phone numbers on the profile
MaxModalCalls == 1   \* calls of the e-mail modals in flight at once

\* ------------------------------------------------------- SDK outcome space
ParamNames == {"identifier", "email_address", "password", "first_name", "last_name", "code",
               "none"}

\* One entry of error.errors: a provider error code and meta.paramName
\* ("none" when the error carries no meta.paramName).
ApiErrors ==
  { [code |-> "form_identifier_not_found", paramName |-> "identifier"],
    [code |-> "form_identifier_exists",    paramName |-> "email_address"],
    [code |-> "form_password_incorrect",   paramName |-> "password"],
    [code |-> "form_param_format_invalid", paramName |-> "first_name"],
    [code |-> "form_param_nil",            paramName |-> "last_name"],
    [code |-> "verification_failed",       paramName |-> "code"],
    [code |-> "too_many_requests",         paramName |-> "none"] }

ErrorLists == { E \in SUBSET ApiErrors : Cardinality(E) >= 1 /\ Cardinality(E) <= MaxErrors }

SignInStatuses == {"complete", "needs_first_factor", "needs_second_factor"}
SignUpStatuses == {"complete", "missing_requirements", "abandoned"}

NoReport == [kind |-> "none", status |-> "none", session |-> "null", errors |-> {}]
\* What a <Redirect> acted on: the signed-in state the SDK reports.
SignedInReport(signedIn) ==
  [kind |-> IF signedIn THEN "SignedIn" ELSE "SignedOut", status |-> "none",
   session |-> "null", errors |-> {}]

Resolved(s) ==
  [kind |-> "resolved", status |-> s,
   session |-> IF s = "complete" THEN "sess_1" ELSE "null", errors |-> {}]

RejectedApi(E) == [kind |-> "api", status |-> "none", session |-> "null", errors |-> E]

RejectedOther == [kind |-> "other", status |-> "none", session |-> "null", errors |-> {}]

Rejections == { RejectedApi(E) : E \in ErrorLists } \cup {RejectedOther}

SignInOutcomes == { Resolved(s) : s \in SignInStatuses } \cup Rejections
SignUpOutcomes == { Resolved(s) : s \in SignUpStatuses } \cup Rejections
VoidOutcomes == {Resolved("ok")} \cup Rejections

\* startSSOFlow resolves with or without a createdSessionId, and without one
\* it may or may not hand back signIn / signUp objects.
SSOOutcomes ==
  { [kind |-> "resolved", status |-> "sso", session |-> "sess_1", errors |-> {}],
    [kind |-> "resolved", status |-> "sso_incomplete", session |-> "null", errors |-> {}],
    [kind |-> "resolved", status |-> "sso_none", session |-> "null", errors |-> {}] }
  \cup Rejections

\* The e-mail addresses a user can type: one registered with the provider,
\* one not registered, one that is not an e-mail address.
EmailInputs == {"known@x.io", "new@x.io", "not-an-email"}

\* The verification codes a user can have typed: none yet, six digits.
CodeInputs == {"", "123456"}
RegisteredEmails == {"known@x.io"}

ValidEmail(e) == e # "not-an-email"

UserExists(e) == e \in RegisteredEmails

\* signIn.create({identifier}) for a registered identifier resolves unless the
\* request itself fails; for an unregistered one the provider answers
\* form_identifier_not_found; any request can fail for an unrelated reason.
ProbeOutcomes(e) ==
  (IF UserExists(e)
     THEN {Resolved("needs_first_factor")}
     ELSE {RejectedApi({[code |-> "form_identifier_not_found", paramName |-> "identifier"]})})
  \cup {RejectedApi({[code |-> "too_many_requests", paramName |-> "none"]}), RejectedOther}

\* -------------------------------------------------------------- routes
AuthGroup == {"/(auth)/continue", "/(auth)/sign-in", "/(auth)/sign-up", "/(auth)/verify",
              "/(auth)/forgot-password"}
AppArea == {"/(tabs)", "/(tabs)/home"}

Sites == {"onSignIn.create", "onSignIn.setActive", "onSignUp.create", "onSignUp.prepare",
          "onVerify.attempt", "onVerify.setActive", "sso.start", "sso.setActive",
          "ssoRouter.start", "ssoRouter.setActive", "continue.resend"}

VARIABLES
  route,            \* the route expo-router shows
  view,             \* what the layout / screen of that route renders
  clerkLoaded,      \* isLoaded of the SDK hooks
  isSignedIn,       \* useAuth().isSignedIn
  authStep,         \* continue.tsx: useState<AuthStep>
  isLoading,        \* continue.tsx: useState(false)
  userEmail,        \* continue.tsx: useState('')
  run,              \* the continue handler in flight and the call it awaits
  formErrors,       \* errors of every react-hook-form instance, by form
  sdkSignUp,        \* the provider's sign-up resource: none, created, prepared
                    \* (code sent), verified (code accepted), complete
  pending,          \* promises in flight, by call site
  ssoLoading,       \* SignInWith (router variant): useState(false)
  entered,          \* history: every navigation into the app area
  code,             \* continue.tsx: the value of verificationForm's code input
  unhandled,        \* history: call sites whose rejection nobody caught
  emails,           \* the provider's e-mail addresses of the user
  phones,           \* the provider's phone numbers of the user
  shownEmails,      \* user.emailAddresses as last rendered
  shownPhones,      \* user.phoneNumbers as last rendered
  hadVerified,      \* history: a verified contact existed before any deletion
  alerts,           \* Alert.alert dialogs, the first one on screen
  destroying,       \* contacts whose destroy() is in flight
  reloads,          \* clerkUser.reload() calls in flight
  showConnectModal, \* ProfileSection: useState(false)
  isConnecting,     \* ProfileSection: useState(false)
  connect,          \* the handleConnectProvider run
  showAddEmailModal, \* ProfileSection: useState(false)
  addEmail,         \* the handleAddEmail run (isAddingEmail while not idle)
  verification      \* the e-mail verification modal of ProfileSection and of
                    \* EmailManagement: visibility, pending address, typed
                    \* code, verifying flag, calls in flight

VARIABLES
  user,             \* ProfileHeader: the Clerk user's firstName, lastName, username
  profileForm,      \* ProfileHeader: values of the edit-profile form
  showEditModal,    \* ProfileHeader: useState(false)
  isUpdating,       \* ProfileHeader: useState(false)
  updates,          \* clerkUser.update calls in flight: form data and request
  passkey,          \* SecuritySection: the clerkUser it was mounted with, its
                    \* passkey flags, the support check and the create run
  forgot            \* ForgotPasswordScreen: step, isLoading, the errors of the
                    \* email form and the onSendResetEmail run

authVars == <<route, view, clerkLoaded, isSignedIn, authStep, isLoading, userEmail, run,
              formErrors, sdkSignUp, pending, ssoLoading, entered>>

profileVars == <<emails, phones, shownEmails, shownPhones, hadVerified, alerts, destroying,
                 reloads, showConnectModal, isConnecting, connect>>

modalVars == <<showAddEmailModal, addEmail, verification>>

editVars == <<user, profileForm, showEditModal, isUpdating, updates>>

screenVars == <<editVars, passkey, forgot>>

vars == <<authVars, code, unhandled, profileVars, modalVars, screenVars>>

Forms == {"emailForm", "signInForm", "signUpForm", "verificationForm",
          "classicSignIn", "classicSignUp", "classicVerify"}

\* The screen each form lives on; a form's state exists while its screen is
\* mounted, and setError on an unmounted form changes nothing.
FormRoute(form) ==
  CASE form = "classicSignIn" -> "/(auth)/sign-in"
    [] form = "classicSignUp" -> "/(auth)/sign-up"
    [] form = "classicVerify" -> "/(auth)/verify"
    [] OTHER -> "/(auth)/continue"

NoErrors == [f \in Forms |-> {}]

Idle == [pc |-> "idle", email |-> "", report |-> NoReport]

\* ------------------------------------------------------------- rendering
\* app/index.tsx: <SignedIn> renders its children once a user is signed in,
\* <SignedOut> once the SDK is loaded and nobody is.
WelcomeScreen(loaded, signedIn) ==
  IF loaded /\ signedIn THEN {"Redirect:/(tabs)/home"}
  ELSE IF loaded THEN {"Button:Welcome", "Button:Sign In", "Button:Create Account"}
  ELSE {}

\* app/(auth)/_layout.tsx: if (isSignedIn) return <Redirect href='/(tabs)'/>,
\* else the Stack of auth screens. The variant renders the Stack either way.
AuthRoutesLayoutMutant(loaded, signedIn) ==
  IF loaded /\ signedIn THEN {"Redirect:/(tabs)", "Stack"} ELSE {"Stack"}
AuthRoutesLayout(loaded, signedIn) ==
  IF loaded /\ signedIn THEN {"Redirect:/(tabs)"} ELSE {"Stack"}

Render(r, loaded, signedIn) ==
  IF r = "/" THEN WelcomeScreen(loaded, signedIn)
  ELSE IF r \in AuthGroup THEN AuthRoutesLayout(loaded, signedIn)
  ELSE {"Home"}

\* Every step of the auth screens ends with React rendering the route anew;
\* the profile screen is not mounted meanwhile.
RenderRoute ==
  /\ view' = Render(route', clerkLoaded', isSignedIn')
  /\ UNCHANGED <<profileVars, modalVars, screenVars>>

\* ... and, but for typing and form.reset, the typed code stays.
Rerender == RenderRoute /\ UNCHANGED code

\* router.replace into the app area, recorded with the SDK report the caller
\* acted on and the state of its setActive call at that moment.
Enter(site, report, active) ==
  entered' = entered \cup {[site |-> site, report |-> report, active |-> active]}

NoConnect == [pc |-> "idle", created |-> FALSE, result |-> "none", found |-> FALSE,
              destroyCalled |-> FALSE]

\* The sets of contacts of one kind a user can have: up to max of them, each
\* verified or not.
ContactSets(kind, max) ==
  UNION { { { [kind |-> kind, n |-> i, verified |-> v[i]] : i \in 1..k }
            : v \in [1..k -> BOOLEAN] }
          : k \in 0..max }

HasVerified(es, ps) == \E c \in es \cup ps : c.verified

\* The components that own an e-mail verification modal.
Components == {"ProfileSection", "EmailManagement"}

\* No e-mail address: pendingEmailVerification / verifyingEmail is null.
Null == -1

\* The id of the address createEmailAddress adds.
NewEmailId == 0

\* useState(false), useState(null), useState(''), defaultValues {code: ''}.
NoVerification ==
  [ show |-> FALSE, pending |-> Null, address |-> Null, code |-> "",
    isVerifying |-> FALSE, preparing |-> Null, resends |-> 0, resendTarget |-> Null ]

InitModals ==
  /\ showAddEmailModal = FALSE
  /\ addEmail = "idle"
  /\ verification = [c \in Components |-> NoVerification]

\* What can be typed into the name fields and the username field of the
\* edit-profile form.
NameInputs == {"", "Ann"}
UsernameInputs == {"", "al", " alice ", "alice"}

\* /^[a-zA-Z0-9_-]+$/
UsernameChars == {"al", "alice"}

\* profileUpdateSchema
ValidName(n) == Len(n) >= 1 /\ Len(n) <= 50
ValidUsername(u) == (Len(u) >= 3 /\ Len(u) <= 30 /\ u \in UsernameChars) \/ u = ""
ValidProfile(data) ==
  ValidName(data.firstName) /\ ValidName(data.lastName) /\ ValidUsername(data.username)

\* String.prototype.trim on the inputs above
trim(u) == IF u = " alice " THEN "alice" ELSE u

\* The user as signed up through the continue flow: names, no username.
NewUser == [firstName |-> "Ann", lastName |-> "Ann", username |-> ""]

\* defaultValues of the edit-profile form: user.x || ''
FormOfUser(u) == [firstName |-> u.firstName, lastName |-> u.lastName, username |-> u.username]

InitEdit ==
  /\ user = NewUser
  /\ profileForm = FormOfUser(NewUser)
  /\ showEditModal = FALSE
  /\ isUpdating = FALSE
  /\ updates = <<>>

\* What useUser() can hand to SecuritySection: no user, or a user object
\* with or without createPasskey, the passkeys property and isSupported.
ClerkUsers ==
  {[exists |-> FALSE, createPasskey |-> FALSE, passkeys |-> FALSE, isSupported |-> FALSE]}
    \cup [exists : {TRUE}, createPasskey : BOOLEAN, passkeys : BOOLEAN, isSupported : BOOLEAN]

\* useState(false), useState(true), useState(false) before the mount effect.
NoPasskey ==
  [ clerkUser |-> [exists |-> FALSE, createPasskey |-> FALSE, passkeys |-> FALSE,
                   isSupported |-> FALSE],
    check |-> "unmounted", isPasskeySupported |-> FALSE, isCheckingSupport |-> TRUE,
    isCreatingPasskey |-> FALSE, create |-> "idle", isSupported |-> "none" ]

\* ForgotPasswordScreen: useState('email'), useState(false), no form errors.
NoForgot ==
  [step |-> "email", isLoading |-> FALSE, errors |-> {}, resetErrors |-> {}, send |-> "idle",
   alert |-> FALSE]

InitScreens == InitEdit /\ passkey = NoPasskey /\ forgot = NoForgot

InitProfile ==
  /\ InitModals
  /\ InitScreens
  /\ emails = {}
  /\ phones = {}
  /\ shownEmails = {}
  /\ shownPhones = {}
  /\ hadVerified = FALSE
  /\ alerts = <<>>
  /\ destroying = {}
  /\ reloads = 0
  /\ showConnectModal = FALSE
  /\ isConnecting = FALSE
  /\ connect = NoConnect

Init ==
  /\ InitProfile
  /\ route = "/"
  /\ view = {}
  /\ clerkLoaded = FALSE
  /\ isSignedIn = FALSE
  /\ authStep = "email"
  /\ isLoading = FALSE
  /\ userEmail = ""
  /\ run = Idle
  /\ formErrors = NoErrors
  /\ sdkSignUp = "none"
  /\ pending = [s \in Sites |-> 0]
  /\ ssoLoading = FALSE
  /\ entered = {}
  /\ code = ""
  /\ unhandled = {}

\* The SDK finishes loading, with or without a session restored from the
\* token cache.
ClerkLoads ==
  /\ ~clerkLoaded
  /\ clerkLoaded' = TRUE
  /\ \E restored \in BOOLEAN : isSignedIn' = restored
  /\ UNCHANGED <<route, authStep, isLoading, userEmail, run, formErrors, sdkSignUp,
                 pending, ssoLoading, entered, unhandled>>
  /\ Rerender

\* app/index.tsx: the three buttons of the welcome screen.
WelcomePress(buttons) ==
  /\ route = "/"
  /\ \E b \in buttons :
       /\ ("Button:" \o b) \in view
       /\ route' = CASE b = "Welcome" -> "/(auth)/continue"
                     [] b = "Sign In" -> "/(auth)/sign-in"
                     [] OTHER -> "/(auth)/sign-up"
  /\ UNCHANGED <<clerkLoaded, isSignedIn, authStep, isLoading, userEmail, run, formErrors,
                 sdkSignUp, pending, ssoLoading, entered, unhandled>>
  /\ Rerender

\* A rendered <Redirect href> navigates.
FollowRedirect ==
  /\ \E h \in AppArea :
       /\ ("Redirect:" \o h) \in view
       /\ route' = h
       /\ Enter(IF route = "/" THEN "WelcomeScreen" ELSE "AuthRoutesLayout",
                SignedInReport(isSignedIn), "n/a")
  /\ formErrors' = NoErrors
  /\ UNCHANGED <<clerkLoaded, isSignedIn, authStep, isLoading, userEmail, run,
                 sdkSignUp, pending, ssoLoading, unhandled>>
  /\ Rerender

\* ------------------------------------------- continue.tsx: ContinueWithAuth
ContinueShown == route = "/(auth)/continue" /\ "Stack" \in view

SetErrors(form, errs) ==
  IF route = FormRoute(form) THEN [formErrors EXCEPT ![form] = @ \cup errs] ELSE formErrors

ClearErrors(form) == [formErrors EXCEPT ![form] = {}]

\* checkUserExists: true when signIn.create({identifier}) resolves; every
\* rejection, whatever its codes, answers false.
checkUserExists(loaded, o) ==
  IF ~loaded THEN FALSE
  ELSE IF o.kind = "resolved" THEN TRUE
  ELSE LET userNotFound ==
             /\ o.kind = "api"
             /\ \E err \in o.errors :
                  err.code \in {"form_identifier_not_found", "form_identifier_exists"}
       IN IF userNotFound THEN FALSE ELSE FALSE

\* emailForm.handleSubmit(handleEmailContinue), up to the first await.
EmailContinuePress ==
  /\ ContinueShown
  /\ authStep = "email"
  /\ ~(isLoading \/ ~clerkLoaded)
  /\ \E e \in EmailInputs :
       IF ValidEmail(e)
         THEN /\ formErrors' = ClearErrors("emailForm")
              /\ isLoading' = TRUE
              /\ userEmail' = e
              /\ run' = [pc |-> "checkUserExists", email |-> e, report |-> NoReport]
         ELSE /\ formErrors' = SetErrors("emailForm", {"email"})
              /\ UNCHANGED <<isLoading, userEmail, run>>
  /\ UNCHANGED <<route, clerkLoaded, isSignedIn, authStep, sdkSignUp, pending, ssoLoading,
                 entered, unhandled>>
  /\ Rerender

\* handleEmailContinue after await checkUserExists(data.email).
EmailContinueSettles ==
  /\ run.pc = "checkUserExists"
  /\ \E o \in ProbeOutcomes(run.email) :
       LET userExists == checkUserExists(clerkLoaded, o)
           step == IF userExists THEN "signin" ELSE "signup"
       IN /\ authStep' = step
          /\ formErrors' = ClearErrors(IF userExists THEN "signInForm" ELSE "signUpForm")
  /\ isLoading' = FALSE
  /\ run' = Idle
  /\ UNCHANGED <<route, clerkLoaded, isSignedIn, userEmail, sdkSignUp, pending, ssoLoading,
                 entered, unhandled>>
  /\ Rerender

\* The zod schema of a step's form rejects the input: handleSubmit sets the
\* field error and does not call the handler.
SubmitInvalid(step, form, field) ==
  /\ ContinueShown
  /\ authStep = step
  /\ ~isLoading
  /\ formErrors' = SetErrors(form, {field})
  /\ UNCHANGED <<route, clerkLoaded, isSignedIn, authStep, isLoading, userEmail, run,
                 sdkSignUp, pending, ssoLoading, entered, unhandled>>
  /\ Rerender

\* form.handleSubmit(handler) with valid input, up to the handler's first await.
SubmitValid(step, form, pc) ==
  /\ ContinueShown
  /\ authStep = step
  /\ ~isLoading
  /\ clerkLoaded
  /\ formErrors' = ClearErrors(form)
  /\ isLoading' = TRUE
  /\ run' = [pc |-> pc, email |-> userEmail, report |-> NoReport]
  /\ UNCHANGED <<route, clerkLoaded, isSignedIn, authStep, userEmail, sdkSignUp, pending,
                 ssoLoading, entered, unhandled>>
  /\ Rerender

SignInPress ==
  \/ SubmitValid("signin", "signInForm", "signIn.create")
  \/ SubmitInvalid("signin", "signInForm", "password")

SignUpPress ==
  \/ SubmitValid("signup", "signUpForm", "signUp.create")
  \/ SubmitInvalid("signup", "signUpForm", "firstName")

\* verificationSchema: code: z.string().min(6).max(6)
ValidCode(c) == c = "123456"

\* The user edits the code input of the verify step.
TypeCode ==
  /\ ContinueShown
  /\ authStep = "verify"
  /\ \E c \in CodeInputs : c # code /\ code' = c
  /\ UNCHANGED <<route, clerkLoaded, isSignedIn, authStep, isLoading, userEmail, run,
                 formErrors, sdkSignUp, pending, ssoLoading, entered, unhandled>>
  /\ RenderRoute

VerificationPress ==
  \/ ValidCode(code) /\ SubmitValid("verify", "verificationForm", "verify.attempt")
  \/ ~ValidCode(code) /\ SubmitInvalid("verify", "verificationForm", "code")

\* The handler goes on to await its next call.
Await(pc, o) ==
  /\ run' = [run EXCEPT !.pc = pc, !.report = o]
  /\ UNCHANGED <<route, clerkLoaded, isSignedIn, authStep, isLoading, userEmail,
                 formErrors, pending, ssoLoading, entered, unhandled>>

\* The handler ends without navigating: its errors are set, finally clears
\* isLoading.
EndRun(handler, form, o, setStep, errs) ==
  /\ authStep' = IF setStep THEN "verify" ELSE authStep
  /\ formErrors' = SetErrors(form, errs)
  /\ isLoading' = FALSE
  /\ run' = Idle
  /\ UNCHANGED <<route, clerkLoaded, isSignedIn, userEmail, pending, ssoLoading,
                 entered, unhandled>>

\* catch block of handleSignIn
handleSignInCatch(o) ==
  IF o.kind = "api"
    THEN { IF err.paramName = "password" THEN "password" ELSE "root" : err \in o.errors }
    ELSE {"root"}

\* catch block of handleSignUp: const field = err.meta?.paramName || 'root'
handleSignUpCatch(o) ==
  IF o.kind = "api"
    THEN { IF err.paramName # "none" THEN err.paramName ELSE "root" : err \in o.errors }
    ELSE {"root"}

\* catch block of handleVerification
handleVerificationCatch(o) == {"code"}

\* handleSignIn: if (signInAttempt.status === 'complete'). The variant lets
\* an attempt that still needs its first factor through.
handleSignInCompletesMutant(o) == o.status # "needs_second_factor"
handleSignInCompletes(o) == o.status = "complete"

\* handleSignIn after await signIn.create({identifier, password}).
SignInCreateSettles ==
  /\ run.pc = "signIn.create"
  /\ \E o \in SignInOutcomes :
       IF o.kind = "resolved"
         THEN IF handleSignInCompletes(o)
                THEN Await("signIn.setActive", o) /\ UNCHANGED sdkSignUp
                ELSE EndRun("handleSignIn", "signInForm", o, FALSE, {"root"})
                       /\ UNCHANGED sdkSignUp
         ELSE EndRun("handleSignIn", "signInForm", o, FALSE, handleSignInCatch(o))
                /\ UNCHANGED sdkSignUp
  /\ Rerender

\* handleSignUp: if (signUpAttempt.status === 'missing_requirements'). The
\* variant sends every attempt that is not complete to verification.
handleSignUpNeedsVerificationMutant(o) == o.status # "complete"
handleSignUpNeedsVerification(o) == o.status = "missing_requirements"

\* handleSignUp after await signUp.create({...}).
SignUpCreateSettles ==
  /\ run.pc = "signUp.create"
  /\ \E o \in SignUpOutcomes :
       IF o.kind = "resolved"
         THEN /\ sdkSignUp' = IF o.status = "complete" THEN "complete" ELSE "created"
              /\ IF handleSignUpNeedsVerification(o) THEN Await("signUp.prepare", o)
                 ELSE IF o.status = "complete" THEN Await("signUp.setActive", o)
                 ELSE EndRun("handleSignUp", "signUpForm", o, FALSE, {})
         ELSE EndRun("handleSignUp", "signUpForm", o, FALSE, handleSignUpCatch(o))
                /\ UNCHANGED sdkSignUp
  /\ Rerender

\* handleSignUp after await signUp.prepareEmailAddressVerification(...).
SignUpPrepareSettles ==
  /\ run.pc = "signUp.prepare"
  /\ \E o \in VoidOutcomes :
       IF o.kind = "resolved"
         THEN /\ sdkSignUp' = "prepared"
              /\ EndRun("handleSignUp", "signUpForm", run.report, TRUE, {})
         ELSE EndRun("handleSignUp", "signUpForm", o, FALSE, handleSignUpCatch(o))
                /\ UNCHANGED sdkSignUp
  /\ Rerender

\* handleVerification: if (signUpAttempt.status === 'complete')
handleVerificationCompletes(o) == o.status = "complete"

\* handleVerification after await signUp.attemptEmailAddressVerification({code}).
VerificationSettles ==
  /\ run.pc = "verify.attempt"
  /\ \E o \in SignUpOutcomes :
       IF o.kind = "resolved"
         THEN IF handleVerificationCompletes(o)
                THEN Await("verify.setActive", o) /\ sdkSignUp' = "verified"
                ELSE EndRun("handleVerification", "verificationForm", o, FALSE, {"code"})
                       /\ UNCHANGED sdkSignUp
         ELSE EndRun("handleVerification", "verificationForm", o, FALSE,
                     handleVerificationCatch(o))
                /\ UNCHANGED sdkSignUp
  /\ Rerender

\* The catch block an exception thrown inside a handler's try lands in.
CatchOf(handler, o) ==
  CASE handler = "handleSignIn" -> handleSignInCatch(o)
    [] handler = "handleSignUp" -> handleSignUpCatch(o)
    [] OTHER -> handleVerificationCatch(o)

\* A continue handler after await setActive({session: createdSessionId}):
\* router.replace('/(tabs)/home') when it resolved, the handler's catch block
\* when it rejected.
ContinueSetActive(pc, handler, form) ==
  /\ run.pc = pc
  /\ \E o \in VoidOutcomes :
       IF o.kind = "resolved"
         THEN /\ isSignedIn' = TRUE
              /\ route' = "/(tabs)/home"
              /\ Enter(handler, run.report, "resolved")
              /\ isLoading' = FALSE
              /\ run' = Idle
              /\ formErrors' = NoErrors
              /\ UNCHANGED <<clerkLoaded, authStep, userEmail, sdkSignUp,
                             pending, ssoLoading, unhandled>>
         ELSE EndRun(handler, form, o, FALSE, CatchOf(handler, o)) /\ UNCHANGED sdkSignUp
  /\ Rerender

SignInSetActiveSettles ==
  ContinueSetActive("signIn.setActive", "handleSignIn", "signInForm")

SignUpSetActiveSettles ==
  ContinueSetActive("signUp.setActive", "handleSignUp", "signUpForm")

VerificationSetActiveSettles ==
  ContinueSetActive("verify.setActive", "handleVerification", "verificationForm")

\* goBack: the back button of the signin, signup and verify steps.
goBack ==
  /\ ContinueShown
  /\ \/ /\ authStep \in {"signin", "signup"}
        /\ authStep' = "email"
        /\ userEmail' = ""
        /\ formErrors' = [formErrors EXCEPT !.signInForm = {}, !.signUpForm = {},
                                            !.emailForm = {}]
        /\ UNCHANGED code
     \/ /\ authStep = "verify"
        /\ authStep' = "signup"
        /\ formErrors' = ClearErrors("verificationForm")
        /\ code' = ""
        /\ UNCHANGED userEmail
  /\ UNCHANGED <<route, clerkLoaded, isSignedIn, isLoading, run, sdkSignUp, pending,
                 ssoLoading, entered, unhandled>>
  /\ RenderRoute

RECURSIVE SumPending(_)
SumPending(S) ==
  IF S = {} THEN 0
  ELSE LET x == CHOOSE y \in S : TRUE IN pending[x] + SumPending(S \ {x})

InFlight == SumPending(Sites)

\* A promise of an ungated call site starts, settles.
Fire(site) == pending' = [pending EXCEPT ![site] = @ + 1]
Land(site) == pending' = [pending EXCEPT ![site] = @ - 1]

\* 'Resend code': onPress={() => signUp?.prepareEmailAddressVerification(...)}
ResendPress ==
  /\ ContinueShown
  /\ authStep = "verify"
  /\ ~isLoading
  /\ InFlight < MaxInFlight
  /\ Fire("continue.resend")
  /\ UNCHANGED <<route, clerkLoaded, isSignedIn, authStep, isLoading, userEmail, run,
                 formErrors, sdkSignUp, ssoLoading, entered, unhandled>>
  /\ Rerender

ResendSettles ==
  /\ pending["continue.resend"] > 0
  /\ Land("continue.resend")
  /\ \E o \in {Resolved("ok"), RejectedOther} :
       unhandled' = IF o.kind = "resolved" THEN unhandled
                    ELSE unhandled \cup {"continue.resend"}
  /\ UNCHANGED <<route, clerkLoaded, isSignedIn, authStep, isLoading, userEmail, run,
                 formErrors, sdkSignUp, ssoLoading, entered>>
  /\ Rerender

ContinueFlow ==
  \/ EmailContinuePress \/ EmailContinueSettles
  \/ SignInPress \/ SignInCreateSettles \/ SignInSetActiveSettles
  \/ SignUpPress \/ SignUpCreateSettles \/ SignUpPrepareSettles \/ SignUpSetActiveSettles
  \/ VerificationPress \/ VerificationSettles \/ VerificationSetActiveSettles
  \/ goBack \/ TypeCode \/ ResendPress \/ ResendSettles

\* ------------------------------------------------- classic screens and SSO
ScreenShown(r) == route = r /\ "Stack" \in view

Move(from, to) == pending' = [pending EXCEPT ![from] = @ - 1, ![to] = @ + 1]

\* sign-in.tsx: mapClerkErrorToFormField
mapSignInError(err) ==
  CASE err.paramName \in {"identifier", "email_address"} -> "email"
    [] err.paramName = "password" -> "password"
    [] OTHER -> "root"

\* sign-up.tsx: mapClerkErrorToFormField
mapSignUpError(err) ==
  CASE err.paramName = "first_name" -> "firstName"
    [] err.paramName = "last_name" -> "lastName"
    [] err.paramName = "email_address" -> "email"
    [] err.paramName = "password" -> "password"
    [] OTHER -> "root"

\* catch block of onSignIn
onSignInCatch(o) ==
  IF o.kind = "api" THEN { mapSignInError(err) : err \in o.errors } ELSE {"root"}

\* catch block of onSignUp
onSignUpCatch(o) ==
  IF o.kind = "api" THEN { mapSignUpError(err) : err \in o.errors } ELSE {"root"}

\* catch block of onVerify
onVerifyCatch(o) ==
  IF o.kind = "api"
    THEN { IF err.code = "verification_failed" THEN "code" ELSE "root" : err \in o.errors }
    ELSE {"root"}

\* handleSubmit of a classic screen: invalid input sets a field error, valid
\* input starts the handler's first SDK call.
ClassicPress(r, form, field, site) ==
  /\ ScreenShown(r)
  /\ \/ /\ clerkLoaded
        /\ InFlight < MaxInFlight
        /\ formErrors' = ClearErrors(form)
        /\ Fire(site)
     \/ /\ formErrors' = SetErrors(form, {field})
        /\ UNCHANGED pending
  /\ UNCHANGED <<route, clerkLoaded, isSignedIn, authStep, isLoading, userEmail, run,
                 sdkSignUp, ssoLoading, entered, unhandled>>
  /\ Rerender

onSignInPress == ClassicPress("/(auth)/sign-in", "classicSignIn", "password", "onSignIn.create")
onSignUpPress == ClassicPress("/(auth)/sign-up", "classicSignUp", "email", "onSignUp.create")
onVerifyPress == ClassicPress("/(auth)/verify", "classicVerify", "code", "onVerify.attempt")

\* onSignIn: if (signInAttempt.status === 'complete')
onSignInCompletes(o) == o.status = "complete"

\* onSignIn after await signIn.create: setActive is called without await and
\* router.replace('/(tabs)') follows at once.
onSignInSettles ==
  /\ pending["onSignIn.create"] > 0
  /\ \E o \in SignInOutcomes :
       IF o.kind = "resolved" /\ onSignInCompletes(o)
         THEN /\ Move("onSignIn.create", "onSignIn.setActive")
              /\ route' = "/(tabs)"
              /\ Enter("onSignIn", o, "pending")
              /\ formErrors' = NoErrors
         ELSE LET errs == IF o.kind = "resolved" THEN {"root"} ELSE onSignInCatch(o)
              IN /\ Land("onSignIn.create")
                 /\ formErrors' = SetErrors("classicSignIn", errs)
                 /\ UNCHANGED <<route, entered>>
  /\ UNCHANGED <<clerkLoaded, isSignedIn, authStep, isLoading, userEmail, run, sdkSignUp,
                 ssoLoading, unhandled>>
  /\ Rerender

\* A setActive call nobody awaits settles: the session becomes active, or the
\* rejection has no handler.
DetachedSetActive(site) ==
  /\ pending[site] > 0
  /\ Land(site)
  /\ \E o \in {Resolved("ok"), RejectedOther} :
       IF o.kind = "resolved"
         THEN isSignedIn' = TRUE /\ UNCHANGED unhandled
         ELSE unhandled' = unhandled \cup {site} /\ UNCHANGED isSignedIn
  /\ UNCHANGED <<route, clerkLoaded, authStep, isLoading, userEmail, run, formErrors,
                 sdkSignUp, ssoLoading, entered>>
  /\ Rerender

onSignInSetActiveSettles == DetachedSetActive("onSignIn.setActive")
ssoSetActiveSettles == DetachedSetActive("sso.setActive")
ssoRouterSetActiveSettles == DetachedSetActive("ssoRouter.setActive")

\* onSignUp after await signUp.create: whatever the status, the verification
\* e-mail is requested next.
onSignUpCreateSettles ==
  /\ pending["onSignUp.create"] > 0
  /\ \E o \in SignUpOutcomes :
       IF o.kind = "resolved"
         THEN /\ Move("onSignUp.create", "onSignUp.prepare")
              /\ sdkSignUp' = IF o.status = "complete" THEN "complete" ELSE "created"
              /\ UNCHANGED <<formErrors>>
         ELSE /\ Land("onSignUp.create")
              /\ formErrors' = SetErrors("classicSignUp", onSignUpCatch(o))
              /\ UNCHANGED sdkSignUp
  /\ UNCHANGED <<route, clerkLoaded, isSignedIn, authStep, isLoading, userEmail, run,
                 ssoLoading, entered, unhandled>>
  /\ Rerender

\* onSignUp after await signUp.prepareEmailAddressVerification:
\* router.replace('/(auth)/verify').
onSignUpPrepareSettles ==
  /\ pending["onSignUp.prepare"] > 0
  /\ Land("onSignUp.prepare")
  /\ \E o \in VoidOutcomes :
       IF o.kind = "resolved"
         THEN /\ route' = "/(auth)/verify"
              /\ sdkSignUp' = "prepared"
              /\ formErrors' = NoErrors
         ELSE /\ formErrors' = SetErrors("classicSignUp", onSignUpCatch(o))
              /\ UNCHANGED <<route, sdkSignUp>>
  /\ UNCHANGED <<clerkLoaded, isSignedIn, authStep, isLoading, userEmail, run,
                 ssoLoading, entered, unhandled>>
  /\ Rerender

\* onVerify: if (signUpAttempt.status === 'complete')
onVerifyCompletes(o) == o.status = "complete"

\* onVerify after await signUp.attemptEmailAddressVerification({code}).
onVerifySettles ==
  /\ pending["onVerify.attempt"] > 0
  /\ \E o \in SignUpOutcomes :
       IF o.kind = "resolved" /\ onVerifyCompletes(o)
         THEN /\ Move("onVerify.attempt", "onVerify.setActive")
              /\ sdkSignUp' = "verified"
              /\ UNCHANGED <<formErrors>>
         ELSE LET errs == IF o.kind = "resolved" THEN {"root"} ELSE onVerifyCatch(o)
              IN /\ Land("onVerify.attempt")
                 /\ formErrors' = SetErrors("classicVerify", errs)
                 /\ UNCHANGED sdkSignUp
  /\ UNCHANGED <<route, clerkLoaded, isSignedIn, authStep, isLoading, userEmail, run,
                 ssoLoading, entered, unhandled>>
  /\ Rerender

\* onVerify after await setActive({session}): router.replace('/(tabs)') when
\* it resolved, the catch block when it rejected. Only an attempt that
\* resolved with status 'complete' reaches this await.
onVerifySetActiveSettles ==
  /\ pending["onVerify.setActive"] > 0
  /\ Land("onVerify.setActive")
  /\ \E o \in VoidOutcomes :
       IF o.kind = "resolved"
         THEN /\ isSignedIn' = TRUE
              /\ route' = "/(tabs)"
              /\ Enter("onVerify", Resolved("complete"), "resolved")
              /\ formErrors' = NoErrors
         ELSE /\ formErrors' = SetErrors("classicVerify", onVerifyCatch(o))
              /\ UNCHANGED <<route, isSignedIn, entered>>
  /\ UNCHANGED <<clerkLoaded, authStep, isLoading, userEmail, run, sdkSignUp,
                 ssoLoading, unhandled>>
  /\ Rerender

\* The links between the classic sign-in and sign-up screens.
ClassicLink ==
  /\ \/ /\ ScreenShown("/(auth)/sign-in")
        /\ route' = "/(auth)/sign-up"
        /\ formErrors' = NoErrors
     \/ /\ ScreenShown("/(auth)/sign-up")
        /\ route' = "/(auth)/sign-in"
        /\ formErrors' = NoErrors
  /\ UNCHANGED <<clerkLoaded, isSignedIn, authStep, isLoading, userEmail, run, sdkSignUp,
                 pending, ssoLoading, entered, unhandled>>
  /\ Rerender

\* components/SignInWith.tsx: onPress of the SSO buttons of the sign-in screen.
ssoPress ==
  /\ ScreenShown("/(auth)/sign-in")
  /\ InFlight < MaxInFlight
  /\ Fire("sso.start")
  /\ UNCHANGED <<route, clerkLoaded, isSignedIn, authStep, isLoading, userEmail, run,
                 formErrors, sdkSignUp, ssoLoading, entered, unhandled>>
  /\ Rerender

ssoHasSession(o) == o.session # "null"

\* ... after await startSSOFlow: setActive without await, no navigation.
ssoSettles ==
  /\ pending["sso.start"] > 0
  /\ \E o \in SSOOutcomes :
       IF o.kind = "resolved" /\ ssoHasSession(o)
         THEN /\ Move("sso.start", "sso.setActive")
         ELSE Land("sso.start")
  /\ UNCHANGED <<route, clerkLoaded, isSignedIn, authStep, isLoading, userEmail, run,
                 formErrors, sdkSignUp, ssoLoading, entered, unhandled>>
  /\ Rerender

\* components/auth/SignInWith.tsx: onPress of the SSO buttons of the continue
\* screen's e-mail step and of the sign-up screen.
ssoRouterPress ==
  /\ \/ ContinueShown /\ authStep = "email"
     \/ ScreenShown("/(auth)/sign-up")
  /\ ~ssoLoading
  /\ ssoLoading' = TRUE
  /\ Fire("ssoRouter.start")
  /\ UNCHANGED <<route, clerkLoaded, isSignedIn, authStep, isLoading, userEmail, run,
                 formErrors, sdkSignUp, entered, unhandled>>
  /\ Rerender

ssoRouterHasSession(o) == o.session # "null"

\* ... after await startSSOFlow: setActive without await, then
\* router.replace('/(tabs)').
ssoRouterSettles ==
  /\ pending["ssoRouter.start"] > 0
  /\ ssoLoading' = FALSE
  /\ \E o \in SSOOutcomes :
       IF o.kind = "resolved" /\ ssoRouterHasSession(o)
         THEN /\ Move("ssoRouter.start", "ssoRouter.setActive")
              /\ route' = "/(tabs)"
              /\ Enter("SignInWith.onPress", o, "pending")
              /\ formErrors' = NoErrors
         ELSE /\ Land("ssoRouter.start")
              /\ UNCHANGED <<route, entered, formErrors>>
  /\ UNCHANGED <<clerkLoaded, isSignedIn, authStep, isLoading, userEmail, run,
                 sdkSignUp, unhandled>>
  /\ Rerender

ClassicFlow ==
  \/ onSignInPress \/ onSignInSettles \/ onSignInSetActiveSettles
  \/ onSignUpPress \/ onSignUpCreateSettles \/ onSignUpPrepareSettles
  \/ onVerifyPress \/ onVerifySettles \/ onVerifySetActiveSettles
  \/ ClassicLink
  \/ ssoPress \/ ssoSettles \/ ssoSetActiveSettles
  \/ ssoRouterPress \/ ssoRouterSettles \/ ssoRouterSetActiveSettles

Next ==
  \/ ClerkLoads
  \/ WelcomePress({"Welcome", "Sign In", "Create Account"})
  \/ FollowRedirect
  \/ ContinueFlow
  \/ ClassicFlow

Spec == Init /\ [][Next]_vars

\* ------------------------------------------------- profile settings screen
\* The signed-in user's profile: the contacts the provider holds, and the
\* lists ProfileSection last passed to EmailManagement and PhoneManagement.
InitProfileScreen ==
  /\ route = "/(tabs)/home"
  /\ view = {"Home", "ProfileSettings"}
  /\ clerkLoaded = TRUE
  /\ isSignedIn = TRUE
  /\ authStep = "email"
  /\ isLoading = FALSE
  /\ userEmail = ""
  /\ run = Idle
  /\ formErrors = NoErrors
  /\ sdkSignUp = "none"
  /\ pending = [s \in Sites |-> 0]
  /\ ssoLoading = FALSE
  /\ entered = {}
  /\ code = ""
  /\ unhandled = {}
  /\ emails \in ContactSets("email", MaxEmails)
  /\ phones \in ContactSets("phone", MaxPhones)
  /\ shownEmails = emails
  /\ shownPhones = phones
  /\ hadVerified = HasVerified(emails, phones)
  /\ alerts = <<>>
  /\ destroying = {}
  /\ reloads = 0
  /\ showConnectModal = FALSE
  /\ isConnecting = FALSE
  /\ connect = NoConnect
  /\ InitModals
  /\ InitScreens

\* The profile settings are open and no Alert dialog covers them.
ProfileShown == route = "/(tabs)/home" /\ "ProfileSettings" \in view /\ alerts = <<>>

Info(text) == [kind |-> "info", text |-> text, target |-> [kind |-> "none", n |-> 0]]

Confirm(c) == [kind |-> "confirm", text |-> "Delete", target |-> [kind |-> c.kind, n |-> c.n]]

\* EmailManagement.handleDelete: the check against the rendered lists
emailDeleteAllowed(e, es, ps) ==
  LET hasOtherVerifiedEmails == \E x \in es : x.n # e.n /\ x.verified
      hasVerifiedPhone == \E x \in ps : x.verified
  IN ~(~hasOtherVerifiedEmails /\ ~hasVerifiedPhone)

\* PhoneManagement.handleDelete: the check against the rendered lists
phoneDeleteAllowed(p, es, ps) ==
  LET otherVerifiedPhones == { x \in ps : x.n # p.n /\ x.verified }
      verifiedEmails == { x \in es : x.verified }
      hasOtherVerifiedContact == otherVerifiedPhones # {} \/ verifiedEmails # {}
  IN hasOtherVerifiedContact

\* EmailManagement.handleDelete, up to the Alert it shows. The Delete entry of
\* the dropdown is rendered when more than one address is listed.
handleDeleteEmail ==
  /\ ProfileShown
  /\ Cardinality(shownEmails) > 1
  /\ \E e \in shownEmails :
       alerts' = IF emailDeleteAllowed(e, shownEmails, shownPhones)
                   THEN <<Confirm(e)>>
                   ELSE <<Info("Cannot Delete")>>
  /\ UNCHANGED <<authVars, code, modalVars, screenVars, unhandled, emails, phones, shownEmails, shownPhones, hadVerified,
                 destroying, reloads, showConnectModal, isConnecting, connect>>

\* PhoneManagement.handleDelete, up to the Alert it shows.
handleDeletePhone ==
  /\ ProfileShown
  /\ \E p \in shownPhones :
       alerts' = IF phoneDeleteAllowed(p, shownEmails, shownPhones)
                   THEN <<Confirm(p)>>
                   ELSE <<Info("Cannot Delete Phone")>>
  /\ UNCHANGED <<authVars, code, modalVars, screenVars, unhandled, emails, phones, shownEmails, shownPhones, hadVerified,
                 destroying, reloads, showConnectModal, isConnecting, connect>>

\* OK of an informational alert, Cancel of a confirmation.
AlertDismiss ==
  /\ alerts # <<>>
  /\ Head(alerts).kind \in {"info", "confirm"}
  /\ alerts' = Tail(alerts)
  /\ UNCHANGED <<authVars, code, modalVars, screenVars, unhandled, emails, phones, shownEmails, shownPhones, hadVerified,
                 destroying, reloads, showConnectModal, isConnecting, connect>>

\* The Delete button of the confirmation: the async onPress up to
\* await destroy().
AlertDelete ==
  /\ alerts # <<>>
  /\ Head(alerts).kind = "confirm"
  /\ Head(alerts).target \notin destroying
  /\ alerts' = Tail(alerts)
  /\ destroying' = destroying \cup {Head(alerts).target}
  /\ UNCHANGED <<authVars, code, modalVars, screenVars, unhandled, emails, phones, shownEmails, shownPhones, hadVerified,
                 reloads, showConnectModal, isConnecting, connect>>

Without(cs, t) == { c \in cs : ~(c.kind = t.kind /\ c.n = t.n) }

\* ... after await destroy(): the provider deleted the contact, the reload of
\* the user is started (onEmailDeleted / onPhoneDeleted) and the success
\* alert shown; or destroy() rejected, inside a callback without try/catch.
DestroySettles ==
  /\ \E t \in destroying :
       /\ destroying' = destroying \ {t}
       /\ \/ /\ \E c \in emails \cup phones : c.kind = t.kind /\ c.n = t.n
             /\ emails' = Without(emails, t)
             /\ phones' = Without(phones, t)
             /\ reloads' = reloads + 1
             /\ alerts' = Append(alerts, Info("Success"))
             /\ UNCHANGED unhandled
          \/ /\ unhandled' = unhandled \cup {t.kind \o ".destroy"}
             /\ UNCHANGED <<emails, phones, reloads, alerts>>
  /\ UNCHANGED <<authVars, code, modalVars, screenVars, shownEmails, shownPhones, hadVerified, showConnectModal,
                 isConnecting, connect>>

\* clerkUser.reload() settles: the lists are rendered anew from the
\* provider's state, or the rejection has no handler.
ReloadSettles ==
  /\ reloads > 0
  /\ reloads' = reloads - 1
  /\ \/ /\ shownEmails' = emails
        /\ shownPhones' = phones
        /\ UNCHANGED unhandled
     \/ /\ unhandled' = unhandled \cup {"reload"}
        /\ UNCHANGED <<shownEmails, shownPhones>>
  /\ UNCHANGED <<authVars, code, modalVars, screenVars, emails, phones, hadVerified, alerts, destroying, showConnectModal,
                 isConnecting, connect>>

\* showConnectAccountOptions
showConnectAccountOptions ==
  /\ ProfileShown
  /\ ~showConnectModal
  /\ showConnectModal' = TRUE
  /\ UNCHANGED <<authVars, code, modalVars, screenVars, unhandled, emails, phones, shownEmails, shownPhones, hadVerified,
                 alerts, destroying, reloads, isConnecting, connect>>

ConnectStep(c, alert) ==
  /\ connect' = c
  /\ alerts' = IF alert = "" THEN alerts ELSE Append(alerts, Info(alert))
  /\ UNCHANGED <<authVars, code, modalVars, screenVars, unhandled, emails, phones, shownEmails, shownPhones, hadVerified,
                 destroying, reloads, showConnectModal>>

\* The catch and finally blocks of handleConnectProvider.
ConnectFails(c) ==
  /\ isConnecting' = FALSE
  /\ ConnectStep([c EXCEPT !.pc = "done"], "Connection Failed")

\* handleConnectProvider, up to await clerkUser.createExternalAccount(...).
handleConnectProvider ==
  /\ ProfileShown
  /\ showConnectModal
  /\ ~isConnecting
  /\ isConnecting' = TRUE
  /\ showConnectModal' = FALSE
  /\ connect' = [NoConnect EXCEPT !.pc = "createExternalAccount"]
  /\ UNCHANGED <<authVars, code, modalVars, screenVars, unhandled, emails, phones, shownEmails, shownPhones, hadVerified,
                 alerts, destroying, reloads>>

\* ... after createExternalAccount: with a redirect URL the browser session
\* is opened, without one the user is reloaded; a rejection goes to catch.
ConnectCreateSettles ==
  /\ connect.pc = "createExternalAccount"
  /\ \/ ConnectStep([connect EXCEPT !.pc = "openAuthSessionAsync", !.created = TRUE], "")
          /\ UNCHANGED isConnecting
     \/ ConnectStep([connect EXCEPT !.pc = "reloadImmediate", !.created = TRUE], "")
          /\ UNCHANGED isConnecting
     \/ ConnectFails(connect)

BrowserResults == {"success", "cancel", "dismiss", "locked"}

\* ... after await WebBrowser.openAuthSessionAsync(...).
ConnectBrowserSettles ==
  /\ connect.pc = "openAuthSessionAsync"
  /\ \/ \E r \in BrowserResults :
          /\ ConnectStep(
               CASE r = "success" -> [connect EXCEPT !.pc = "reload", !.result = r]
                 [] r = "cancel" ->
                      [connect EXCEPT !.pc = "destroyCancel", !.result = r,
                                      !.destroyCalled = TRUE]
                 [] OTHER ->
                      [connect EXCEPT !.pc = "destroyFailed", !.result = r,
                                      !.destroyCalled = TRUE], "")
          /\ UNCHANGED isConnecting
     \/ ConnectFails([connect EXCEPT !.result = "threw"])

\* ... result 'success': after the one-second wait and await
\* clerkUser.reload(), the provider is looked up among the external accounts.
ConnectReloadSettles ==
  /\ connect.pc = "reload"
  /\ \/ \E found \in BOOLEAN :
          /\ isConnecting' = FALSE
          /\ ConnectStep([connect EXCEPT !.pc = "done", !.found = found],
                         IF found THEN "Account Connected" ELSE "Connection Failed")
     \/ ConnectFails([connect EXCEPT !.result = "reloadThrew"])

\* ... no redirect URL: after await clerkUser.reload().
ConnectImmediateSettles ==
  /\ connect.pc = "reloadImmediate"
  /\ \/ /\ isConnecting' = FALSE
        /\ ConnectStep([connect EXCEPT !.pc = "done", !.found = TRUE], "Account Connected")
     \/ ConnectFails(connect)

\* ... result 'cancel': after await externalAccount.destroy() in its own try.
ConnectDestroyCancelSettles ==
  /\ connect.pc = "destroyCancel"
  /\ isConnecting' = FALSE
  /\ ConnectStep([connect EXCEPT !.pc = "done"], "")

\* ... any other result: after await externalAccount.destroy() in its own
\* try, the handler throws into its catch block.
ConnectDestroyFailedSettles ==
  /\ connect.pc = "destroyFailed"
  /\ ConnectFails(connect)

NextContacts ==
  \/ handleDeleteEmail \/ handleDeletePhone \/ AlertDismiss \/ AlertDelete
  \/ DestroySettles \/ ReloadSettles

NextConnect ==
  \/ AlertDismiss
  \/ showConnectAccountOptions \/ handleConnectProvider
  \/ ConnectCreateSettles \/ ConnectBrowserSettles \/ ConnectReloadSettles
  \/ ConnectImmediateSettles \/ ConnectDestroyCancelSettles \/ ConnectDestroyFailedSettles

SpecContacts == InitProfileScreen /\ [][NextContacts]_vars
SpecConnect == InitProfileScreen /\ [][NextConnect]_vars

\* ------------------------------------------ e-mail verification modals
NoModal == ~showAddEmailModal /\ \A c \in Components : ~verification[c].show

\* The 'Email Verified' alert, whose OK button closes the modal of c.
Verified(c) == [kind |-> "verified", text |-> c, target |-> [kind |-> "none", n |-> 0]]

RECURSIVE SumCalls(_)
SumCalls(S) ==
  IF S = {} THEN 0
  ELSE LET c == CHOOSE x \in S : TRUE
       IN verification[c].resends + (IF verification[c].preparing # Null THEN 1 ELSE 0)
            + (IF verification[c].isVerifying THEN 1 ELSE 0) + SumCalls(S \ {c})

\* Calls of the e-mail modals in flight.
ModalCalls == SumCalls(Components) + (IF addEmail # "idle" THEN 1 ELSE 0)

\* What the modal steps leave alone.
ModalFrame ==
  UNCHANGED <<authVars, code, unhandled, phones, shownEmails, shownPhones, hadVerified,
              destroying, reloads, showConnectModal, isConnecting, connect, screenVars>>

\* ProfileSection.showAddEmailOptions
showAddEmailOptions ==
  /\ ProfileShown /\ NoModal
  /\ showAddEmailModal' = TRUE
  /\ UNCHANGED <<addEmail, verification, emails, alerts>>
  /\ ModalFrame

\* Cancel of the Add Email modal.
AddEmailCancel ==
  /\ ProfileShown /\ showAddEmailModal
  /\ showAddEmailModal' = FALSE
  /\ UNCHANGED <<addEmail, verification, emails, alerts>>
  /\ ModalFrame

\* handleEmailSubmit(handleAddEmail), up to await createEmailAddress.
handleAddEmail ==
  /\ ProfileShown /\ showAddEmailModal
  /\ addEmail = "idle"
  /\ ModalCalls < MaxModalCalls
  /\ addEmail' = "createEmailAddress"
  /\ UNCHANGED <<showAddEmailModal, verification, emails, alerts>>
  /\ ModalFrame

\* ... after await clerkUser.createEmailAddress({email}).
AddEmailCreateSettles ==
  /\ addEmail = "createEmailAddress"
  /\ \/ /\ \A e \in emails : e.n # NewEmailId
        /\ emails' = emails \cup {[kind |-> "email", n |-> NewEmailId, verified |-> FALSE]}
        /\ addEmail' = "prepareVerification"
        /\ UNCHANGED alerts
     \/ /\ addEmail' = "idle"
        /\ alerts' = Append(alerts, Info("Error"))
        /\ UNCHANGED emails
  /\ UNCHANGED <<showAddEmailModal, verification>>
  /\ ModalFrame

\* ... after await emailAddress.prepareVerification({strategy: 'email_code'}):
\* the pending address is stored, the code form reset and the verification
\* modal opened.
AddEmailPrepareSettles ==
  /\ addEmail = "prepareVerification"
  /\ addEmail' = "idle"
  /\ \/ /\ verification' = [verification EXCEPT
             !.ProfileSection.pending = NewEmailId, !.ProfileSection.address = NewEmailId,
             !.ProfileSection.code = "", !.ProfileSection.show = TRUE]
        /\ showAddEmailModal' = FALSE
        /\ UNCHANGED alerts
     \/ /\ alerts' = Append(alerts, Info("Error"))
        /\ UNCHANGED <<showAddEmailModal, verification>>
  /\ UNCHANGED emails
  /\ ModalFrame

\* EmailManagement.handleVerifyEmail, up to await prepareVerification: the
\* Verify entry of an address listed as unverified.
handleVerifyEmail ==
  /\ ProfileShown /\ NoModal
  /\ ModalCalls < MaxModalCalls
  /\ verification.EmailManagement.preparing = Null
  /\ \E e \in shownEmails :
       /\ ~e.verified
       /\ \E x \in emails : x.n = e.n
       /\ verification' = [verification EXCEPT !.EmailManagement.preparing = e.n]
  /\ UNCHANGED <<showAddEmailModal, addEmail, emails, alerts>>
  /\ ModalFrame

\* ... after await emailAddress.prepareVerification({strategy: 'email_code'}).
VerifyEmailPrepareSettles ==
  /\ verification.EmailManagement.preparing # Null
  /\ \/ /\ verification' = [verification EXCEPT
             !.EmailManagement.pending = verification.EmailManagement.preparing,
             !.EmailManagement.address = verification.EmailManagement.preparing,
             !.EmailManagement.code = "", !.EmailManagement.show = TRUE,
             !.EmailManagement.preparing = Null]
        /\ UNCHANGED alerts
     \/ /\ verification' = [verification EXCEPT !.EmailManagement.preparing = Null]
        /\ alerts' = Append(alerts, Info("Error"))
  /\ UNCHANGED <<showAddEmailModal, addEmail, emails>>
  /\ ModalFrame

\* The user edits the code input of a verification modal.
TypeModalCode ==
  /\ ProfileShown
  /\ \E c \in Components :
       /\ verification[c].show
       /\ \E d \in CodeInputs :
            /\ d # verification[c].code
            /\ verification' = [verification EXCEPT ![c].code = d]
  /\ UNCHANGED <<showAddEmailModal, addEmail, emails, alerts>>
  /\ ModalFrame

\* Cancel of a verification modal: setShowEmailVerificationModal(false).
VerificationCancel ==
  /\ ProfileShown
  /\ \E c \in Components :
       /\ verification[c].show
       /\ verification' = [verification EXCEPT ![c].show = FALSE]
  /\ UNCHANGED <<showAddEmailModal, addEmail, emails, alerts>>
  /\ ModalFrame

\* handleSubmit(handleEmailVerification), up to await attemptVerification.
handleEmailVerification ==
  /\ ProfileShown
  /\ \E c \in Components :
       /\ verification[c].show
       /\ ~verification[c].isVerifying
       /\ ModalCalls < MaxModalCalls
       /\ ValidCode(verification[c].code)
       /\ verification[c].pending # Null
       /\ verification' = [verification EXCEPT ![c].isVerifying = TRUE]
  /\ UNCHANGED <<showAddEmailModal, addEmail, emails, alerts>>
  /\ ModalFrame

\* ... after await attemptVerification({code}): the 'Email Verified' alert, or
\* the catch block's 'Verification Failed'; finally clears the flag.
EmailVerificationSettles ==
  /\ \E c \in Components :
       /\ verification[c].isVerifying
       /\ verification' = [verification EXCEPT ![c].isVerifying = FALSE]
       /\ \/ /\ verification[c].pending # Null
             /\ emails' = { IF e.n = verification[c].pending
                              THEN [e EXCEPT !.verified = TRUE] ELSE e : e \in emails }
             /\ alerts' = Append(alerts, Verified(c))
          \/ /\ alerts' = Append(alerts, Info("Verification Failed"))
             /\ UNCHANGED emails
  /\ UNCHANGED <<showAddEmailModal, addEmail>>
  /\ ModalFrame

\* OK of the 'Email Verified' alert: the modal is closed, the pending address
\* cleared and the code form reset.
AlertVerifiedOk ==
  /\ alerts # <<>>
  /\ Head(alerts).kind = "verified"
  /\ alerts' = Tail(alerts)
  /\ verification' = [verification EXCEPT
       ![Head(alerts).text].show = FALSE, ![Head(alerts).text].pending = Null,
       ![Head(alerts).text].address = Null, ![Head(alerts).text].code = ""]
  /\ UNCHANGED <<showAddEmailModal, addEmail, emails>>
  /\ ModalFrame

\* handleResendEmailVerification / handleResendVerification, up to
\* await prepareVerification({strategy: 'email_code'}) on the pending address.
\* The variant forgets the code typed so far.
ResendCallMutant(v) == [v EXCEPT !.resends = @ + 1, !.resendTarget = v.pending, !.code = ""]
ResendCall(v) == [v EXCEPT !.resends = @ + 1, !.resendTarget = v.pending]

ModalResendPress ==
  /\ ProfileShown
  /\ ModalCalls < MaxModalCalls
  /\ \E c \in Components :
       /\ verification[c].show
       /\ verification[c].pending # Null
       /\ verification' = [verification EXCEPT ![c] = ResendCall(@)]
  /\ UNCHANGED <<showAddEmailModal, addEmail, emails, alerts>>
  /\ ModalFrame

\* ... after the await: Alert 'Code Sent', or the catch block's Alert 'Error'.
ModalResendSettles ==
  /\ \E c \in Components :
       /\ verification[c].resends > 0
       /\ verification' = [verification EXCEPT ![c].resends = @ - 1]
  /\ \E text \in {"Code Sent", "Error"} : alerts' = Append(alerts, Info(text))
  /\ UNCHANGED <<showAddEmailModal, addEmail, emails>>
  /\ ModalFrame

EmailModals ==
  \/ showAddEmailOptions \/ AddEmailCancel \/ handleAddEmail
  \/ AddEmailCreateSettles \/ AddEmailPrepareSettles
  \/ handleVerifyEmail \/ VerifyEmailPrepareSettles
  \/ TypeModalCode \/ VerificationCancel
  \/ handleEmailVerification \/ EmailVerificationSettles \/ AlertVerifiedOk
  \/ ModalResendPress \/ ModalResendSettles
  \/ AlertDismiss

\* The app starts signed out on the welcome screen, or with the profile
\* settings of a signed-in user open.
InitResend == Init \/ (InitProfileScreen /\ phones = {})

NextResend == Next \/ EmailModals

SpecResend == InitResend /\ [][NextResend]_vars

\* ------------------------------------------------- edit-profile modal
\* The 'Success' alert, whose OK button closes the edit modal.
Saved == [kind |-> "saved", text |-> "Success", target |-> [kind |-> "none", n |-> 0]]

EditFrame == UNCHANGED <<authVars, code, unhandled, modalVars, emails, phones, shownEmails,
                         shownPhones, hadVerified, destroying, reloads, showConnectModal,
                         isConnecting, connect, passkey, forgot>>

\* ProfileHeader.handleUpdateProfile: the form is reset to the user's data
\* and the modal opened.
handleUpdateProfile ==
  /\ ProfileShown /\ ~showEditModal
  /\ profileForm' = FormOfUser(user)
  /\ showEditModal' = TRUE
  /\ UNCHANGED <<user, isUpdating, updates, alerts>>
  /\ EditFrame

\* The user edits a field of the edit-profile form.
TypeProfile ==
  /\ ProfileShown /\ showEditModal
  /\ \/ \E n \in NameInputs \ {profileForm.firstName} :
          profileForm' = [profileForm EXCEPT !.firstName = n]
     \/ \E n \in NameInputs \ {profileForm.lastName} :
          profileForm' = [profileForm EXCEPT !.lastName = n]
     \/ \E u \in UsernameInputs \ {profileForm.username} :
          profileForm' = [profileForm EXCEPT !.username = u]
  /\ UNCHANGED <<user, showEditModal, isUpdating, updates, alerts>>
  /\ EditFrame

\* Cancel of the edit modal.
EditCancel ==
  /\ ProfileShown /\ showEditModal
  /\ showEditModal' = FALSE
  /\ UNCHANGED <<user, profileForm, isUpdating, updates, alerts>>
  /\ EditFrame

\* handleProfileSubmit: the request built from the form data. The username
\* is included only if provided and not empty.
updateData(data) ==
  IF data.username # "" /\ trim(data.username) # ""
    THEN [firstName |-> data.firstName, lastName |-> data.lastName,
          username |-> trim(data.username)]
    ELSE [firstName |-> data.firstName, lastName |-> data.lastName]

\* clerkUser.update(params): the attributes named in params are set, the
\* others kept.
update(u, params) == [k \in DOMAIN u |-> IF k \in DOMAIN params THEN params[k] ELSE u[k]]

\* handleSubmit(handleProfileSubmit), up to await clerkUser.update.
handleProfileSubmit ==
  /\ ProfileShown /\ showEditModal
  /\ ~isUpdating
  /\ ValidProfile(profileForm)
  /\ isUpdating' = TRUE
  /\ updates' = Append(updates, [data |-> profileForm, params |-> updateData(profileForm)])
  /\ UNCHANGED <<user, profileForm, showEditModal, alerts>>
  /\ EditFrame

\* ... after the await: the 'Success' alert, or the catch block's alert;
\* finally setIsUpdating(false).
ProfileUpdateSettles ==
  /\ updates # <<>>
  /\ updates' = Tail(updates)
  /\ isUpdating' = FALSE
  /\ \/ /\ user' = update(user, Head(updates).params)
        /\ alerts' = Append(alerts, Saved)
     \/ /\ \E text \in {"Username Error", "Error"} : alerts' = Append(alerts, Info(text))
        /\ UNCHANGED user
  /\ UNCHANGED <<profileForm, showEditModal>>
  /\ EditFrame

\* OK of the 'Success' alert: setShowEditModal(false).
AlertSavedOk ==
  /\ alerts # <<>>
  /\ Head(alerts).kind = "saved"
  /\ alerts' = Tail(alerts)
  /\ showEditModal' = FALSE
  /\ UNCHANGED <<user, profileForm, isUpdating, updates>>
  /\ EditFrame

InitProfileEdit == InitProfileScreen /\ emails = {} /\ phones = {}

NextProfileEdit ==
  \/ handleUpdateProfile \/ TypeProfile \/ EditCancel
  \/ handleProfileSubmit \/ ProfileUpdateSettles \/ AlertSavedOk
  \/ AlertDismiss

SpecProfileEdit == InitProfileEdit /\ [][NextProfileEdit]_vars

\* ------------------------------------------------- passkeys (security)
PasskeyFrame == UNCHANGED <<authVars, code, unhandled, modalVars, editVars, emails, phones,
                            shownEmails, shownPhones, hadVerified, destroying, reloads,
                            showConnectModal, isConnecting, connect, forgot>>

Platforms == {"web", "ios", "android", "other"}

\* checkPasskeySupport: platformSupported. On the web the WebAuthn API has
\* to be there.
platformSupported(os, webAuthn) ==
  CASE os = "web" -> webAuthn
    [] os = "ios" -> TRUE
    [] os = "android" -> TRUE
    [] OTHER -> FALSE

\* checkPasskeySupport from the platform check on:
\* setIsPasskeySupported(platformSupported && hasCreatePasskey); finally
\* setIsCheckingSupport(false).
CheckPlatform(p) ==
  \E os \in Platforms, webAuthn \in BOOLEAN :
    passkey' = [p EXCEPT !.check = "done",
                         !.isPasskeySupported = platformSupported(os, webAuthn)
                                                  /\ p.clerkUser.createPasskey,
                         !.isCheckingSupport = FALSE]

\* An early return of checkPasskeySupport.
CheckFails(p) ==
  passkey' = [p EXCEPT !.check = "done", !.isPasskeySupported = FALSE,
                       !.isCheckingSupport = FALSE]

\* SecuritySection mounts: useEffect(() => { checkPasskeySupport() }, []), up
\* to await clerkUser.isSupported('passkey') or, without that method, to the end.
checkPasskeySupport ==
  /\ ProfileShown
  /\ passkey.check = "unmounted"
  /\ \E u \in ClerkUsers :
       LET p == [passkey EXCEPT !.clerkUser = u, !.isCheckingSupport = TRUE] IN
         IF ~u.exists THEN CheckFails(p)
         ELSE IF ~u.createPasskey \/ ~u.passkeys THEN CheckFails(p)
         ELSE IF u.isSupported THEN passkey' = [p EXCEPT !.check = "isSupported"]
         ELSE CheckPlatform(p)
  /\ UNCHANGED alerts
  /\ PasskeyFrame

\* ... after await clerkUser.isSupported('passkey').
CheckSupportSettles ==
  /\ passkey.check = "isSupported"
  /\ \/ CheckPlatform(passkey)
     \/ CheckFails(passkey)
  /\ UNCHANGED alerts
  /\ PasskeyFrame

\* const hasPasskeyAPI / hasIsSupported / shouldShowPasskeys of the render
\* (the user has no passkeys yet), and the Add button's disabled prop.
hasPasskeyAPI == passkey.clerkUser.exists /\ passkey.clerkUser.createPasskey
hasIsSupported == passkey.clerkUser.exists /\ passkey.clerkUser.isSupported
shouldShowPasskeys == hasPasskeyAPI
AddEnabled ==
  /\ passkey.check # "unmounted"
  /\ shouldShowPasskeys
  /\ ~(passkey.isCreatingPasskey \/ ~hasPasskeyAPI \/ ~passkey.isPasskeySupported
         \/ passkey.isCheckingSupport \/ ~hasIsSupported)

\* handleCreatePasskey, up to await clerkUser.isSupported('passkey') or,
\* without that method, to await clerkUser.createPasskey().
handleCreatePasskey ==
  /\ ProfileShown
  /\ AddEnabled
  /\ IF ~passkey.clerkUser.exists
       THEN /\ alerts' = Append(alerts, Info("Error"))
            /\ UNCHANGED passkey
     ELSE IF ~passkey.clerkUser.createPasskey
       THEN /\ alerts' = Append(alerts, Info("Feature Not Available"))
            /\ UNCHANGED passkey
     ELSE IF ~passkey.isPasskeySupported
       THEN /\ alerts' = Append(alerts, Info("Passkeys Not Supported"))
            /\ UNCHANGED passkey
     ELSE /\ passkey' = [passkey EXCEPT
               !.isCreatingPasskey = TRUE, !.isSupported = "none",
               !.create = IF passkey.clerkUser.isSupported THEN "isSupported"
                          ELSE "createPasskey"]
          /\ UNCHANGED alerts
  /\ PasskeyFrame

\* handleCreatePasskey: if (!isSupported) throw ...
\* The variant calls createPasskey whatever isSupported answered.
CreateSupportedMutant(answer) == answer \in {"true", "false"}
CreateSupported(answer) == answer = "true"

\* ... after await clerkUser.isSupported('passkey'): createPasskey is called,
\* or the catch block shows its alert and finally clears the flag.
CreateSupportSettles ==
  /\ passkey.create = "isSupported"
  /\ \E answer \in {"true", "false", "rejected"} :
       IF CreateSupported(answer)
         THEN /\ passkey' = [passkey EXCEPT !.isSupported = answer, !.create = "createPasskey"]
              /\ UNCHANGED alerts
         ELSE /\ passkey' = [passkey EXCEPT !.isSupported = answer, !.create = "idle",
                                            !.isCreatingPasskey = FALSE]
              /\ alerts' = Append(alerts, Info(IF answer = "false" THEN "Feature Not Ready"
                                               ELSE "Passkey Creation Failed"))
  /\ PasskeyFrame

\* ... after await clerkUser.createPasskey(): 'Passkey Created', or the catch
\* block (an alert, or nothing when the user cancelled); finally clears the
\* flag.
CreatePasskeySettles ==
  /\ passkey.create = "createPasskey"
  /\ passkey' = [passkey EXCEPT !.create = "idle", !.isCreatingPasskey = FALSE]
  /\ \/ \E text \in {"Passkey Created", "Feature Not Ready", "Passkey Creation Failed"} :
          alerts' = Append(alerts, Info(text))
     \/ UNCHANGED alerts
  /\ PasskeyFrame

\* The profile settings show ProfileHeader above SecuritySection.
InitSecurity == InitProfileEdit

NextSecurity ==
  \/ checkPasskeySupport \/ CheckSupportSettles
  \/ handleCreatePasskey \/ CreateSupportSettles \/ CreatePasskeySettles
  \/ handleUpdateProfile \/ TypeProfile \/ EditCancel
  \/ handleProfileSubmit \/ ProfileUpdateSettles \/ AlertSavedOk
  \/ AlertDismiss

SpecSecurity == InitSecurity /\ [][NextSecurity]_vars

\* ------------------------------------------------ forgot-password screen
ForgotShown == ScreenShown("/(auth)/forgot-password")

\* What a step of the forgot-password screen leaves alone, and its render.
ForgotFrame ==
  /\ UNCHANGED <<clerkLoaded, isSignedIn, authStep, isLoading, userEmail, run, formErrors,
                 sdkSignUp, pending, ssoLoading, entered, code, unhandled, profileVars,
                 modalVars, editVars, passkey>>
  /\ view' = Render(route', clerkLoaded', isSignedIn')

\* 'Forgot password?' of the continue flow's email and sign-in steps:
\* router.push('/(auth)/forgot-password') mounts the screen.
ForgotLink ==
  /\ ContinueShown
  /\ authStep \in {"email", "signin"}
  /\ route' = "/(auth)/forgot-password"
  /\ forgot' = NoForgot
  /\ ForgotFrame

\* 'Back to Sign In': router.replace('/(auth)/sign-in') unmounts the screen,
\* and its state goes with it.
ForgotBack ==
  /\ ForgotShown
  /\ forgot.step = "email"
  /\ route' = "/(auth)/sign-in"
  /\ forgot' = NoForgot
  /\ ForgotFrame

\* handleEmailSubmit(onSendResetEmail): an invalid address gets the schema's
\* error; a valid one runs the handler up to await signIn.create.
onSendResetEmail ==
  /\ ForgotShown
  /\ forgot.step = "email"
  /\ ~forgot.isLoading
  /\ \E e \in EmailInputs :
       IF ~ValidEmail(e) THEN forgot' = [forgot EXCEPT !.errors = {"email"}]
       ELSE IF ~clerkLoaded THEN forgot' = [forgot EXCEPT !.errors = {}]
       ELSE forgot' = [forgot EXCEPT !.errors = {}, !.isLoading = TRUE, !.send = "signIn.create"]
  /\ UNCHANGED route
  /\ ForgotFrame

\* onSendResetEmail: if (firstFactor.status === 'needs_first_factor')
\* The variant moves on whatever status signIn.create returned.
resetCodeSentMutant(o) == o.kind = "resolved"
resetCodeSent(o) == o.kind = "resolved" /\ o.status = "needs_first_factor"

\* onSendResetEmail catch: the fields setEmailError is called on.
resetEmailErrors(o) ==
  CASE o.kind = "api" ->
         { IF err.paramName \in {"identifier", "email_address"} THEN "email" ELSE "root"
             : err \in o.errors }
    [] o.kind = "other" -> {"root"}
    [] OTHER -> {}

\* ... after await signIn.create({strategy: 'reset_password_email_code', ...}).
SendResetSettles ==
  /\ forgot.send = "signIn.create"
  /\ \E o \in SignInOutcomes :
       forgot' = [forgot EXCEPT
         !.step = IF resetCodeSent(o) THEN "reset" ELSE @,
         !.errors = @ \cup resetEmailErrors(o),
         !.isLoading = FALSE,
         !.send = "idle"]
  /\ UNCHANGED route
  /\ ForgotFrame

\* resetPasswordSchema
ResetFields == {"code", "password", "confirmPassword"}

\* handleResetSubmit(onResetPassword): invalid input gets the schema's
\* errors; valid input runs the handler up to await signIn.attemptFirstFactor.
onResetPassword ==
  /\ ForgotShown
  /\ forgot.step = "reset"
  /\ ~forgot.isLoading /\ ~forgot.alert
  /\ \/ \E f \in ResetFields : forgot' = [forgot EXCEPT !.resetErrors = {f}]
     \/ /\ clerkLoaded
        /\ forgot' = [forgot EXCEPT !.resetErrors = {}, !.isLoading = TRUE,
                                    !.send = "signIn.attemptFirstFactor"]
  /\ UNCHANGED route
  /\ ForgotFrame

\* onResetPassword: the fields setResetError is called on.
resetPasswordErrors(o) ==
  CASE o.kind = "api" ->
         { IF err.paramName \in {"code", "password"} THEN err.paramName ELSE "root"
             : err \in o.errors }
    [] o.kind = "other" -> {"root"}
    [] o.status # "complete" -> {"root"}
    [] OTHER -> {}

\* ... after await signIn.attemptFirstFactor: the success alert on 'complete',
\* an error otherwise; finally setIsLoading(false).
ResetPasswordSettles ==
  /\ forgot.send = "signIn.attemptFirstFactor"
  /\ \E o \in SignInOutcomes :
       forgot' = [forgot EXCEPT
         !.alert = o.kind = "resolved" /\ o.status = "complete",
         !.resetErrors = @ \cup resetPasswordErrors(o),
         !.isLoading = FALSE,
         !.send = "idle"]
  /\ UNCHANGED route
  /\ ForgotFrame

\* OK of 'Password Reset Successful': router.replace('/(auth)/sign-in').
ResetAlertOk ==
  /\ ForgotShown
  /\ forgot.alert
  /\ route' = "/(auth)/sign-in"
  /\ forgot' = NoForgot
  /\ ForgotFrame

\* 'Back' of the reset step: setStep('email').
ResetBack ==
  /\ ForgotShown
  /\ forgot.step = "reset"
  /\ ~forgot.alert
  /\ forgot' = [forgot EXCEPT !.step = "email"]
  /\ UNCHANGED route
  /\ ForgotFrame

ForgotFlow ==
  \/ ForgotLink \/ ForgotBack \/ onSendResetEmail \/ SendResetSettles
  \/ onResetPassword \/ ResetPasswordSettles \/ ResetAlertOk \/ ResetBack

\* The way from the welcome screen over the continue flow's email and
\* sign-in steps to the forgot-password screen, and that screen.
NextForgot ==
  \/ ClerkLoads
  \/ WelcomePress({"Welcome", "Sign In", "Create Account"})
  \/ FollowRedirect
  \/ EmailContinuePress \/ EmailContinueSettles \/ goBack
  \/ SignInPress \/ SignInCreateSettles \/ SignInSetActiveSettles
  \/ ForgotFlow

SpecForgot == Init /\ [][NextForgot]_vars

\* -------------------------------------------------------------- properties

AllowedSteps ==
  { <<"email", "signin">>, <<"email", "signup">>, <<"signup", "verify">>,
    <<"signin", "email">>, <<"signup", "email">>, <<"verify", "signup">> }

\* C1: while the continue screen is mounted, every change of authStep is one
\* of email->signin, email->signup, signup->verify, signin->email,
\* signup->email, verify->signup; 'verify' is entered only from 'signup'.
C1_StepTransitions ==
  [][(route = "/(auth)/continue" /\ authStep' # authStep)
       => <<authStep, authStep'>> \in AllowedSteps]_vars

\* C2: a run of handleEmailContinue ends at 'signin' when the e-mail belongs
\* to an existing user and at 'signup' when it does not, whatever the outcome
\* of the existence probe.
C2_SmartRouting ==
  [][(run.pc = "checkUserExists" /\ run'.pc = "idle")
       => authStep' = (IF UserExists(run.email) THEN "signin" ELSE "signup")]_vars

\* The handler run of the continue screen that awaits in pc, and its form.
HandlerOf(pc) ==
  CASE pc \in {"signIn.create", "signIn.setActive"} -> "handleSignIn"
    [] pc \in {"signUp.create", "signUp.prepare", "signUp.setActive"} -> "handleSignUp"
    [] pc \in {"verify.attempt", "verify.setActive"} -> "handleVerification"
    [] OTHER -> "none"

FormOf(handler) ==
  CASE handler = "handleSignIn" -> "signInForm"
    [] handler = "handleSignUp" -> "signUpForm"
    [] handler = "handleVerification" -> "verificationForm"
    [] handler = "onSignIn" -> "classicSignIn"
    [] OTHER -> "classicSignUp"

\* The input fields each submit handler's form declares.
FormFields ==
  [ handleSignIn |-> {"email", "password"},
    handleSignUp |-> {"email", "password", "firstName", "lastName"},
    onSignIn     |-> {"email", "password"},
    onSignUp     |-> {"firstName", "lastName", "email", "password"} ]

\* A step in which a submit handler of the continue screen returns.
RunEnds == run.pc \notin {"idle", "checkUserExists"} /\ run'.pc = "idle"

ErrorsOnFields(handler) ==
  formErrors'[FormOf(handler)] \subseteq (FormFields[handler] \cup {"root"})

\* C9: every error a sign-in or sign-up submit handler sets for a provider
\* error is set on an input field of its form or on 'root'.
C9_ErrorsOnFormFields ==
  [][/\ (RunEnds /\ HandlerOf(run.pc) \in {"handleSignIn", "handleSignUp"})
          => ErrorsOnFields(HandlerOf(run.pc))
     /\ pending'["onSignIn.create"] < pending["onSignIn.create"]
          => ErrorsOnFields("onSignIn")
     /\ (\E site \in {"onSignUp.create", "onSignUp.prepare"} : pending'[site] < pending[site])
          => ErrorsOnFields("onSignUp")]_vars

\* C10: every finished run of handleSignIn, handleSignUp or
\* handleVerification navigated to the app, changed authStep or set an error
\* on its form.
C10_RunHasEffect ==
  [][(RunEnds /\ route = "/(auth)/continue")
       => \/ route' \in AppArea
          \/ authStep' # authStep
          \/ formErrors'[FormOf(HandlerOf(run.pc))] # {}]_vars

\* C4: every navigation into the app area acted on a completed
\* authentication reported by the SDK: an attempt resolved with status
\* 'complete', an SSO flow resolved with a createdSessionId, or SignedIn being
\* true; never on a rejected call or on an attempt with another status.
C4_EntersOnlyWhenComplete ==
  \A e \in entered :
    \/ e.report.kind = "SignedIn"
    \/ /\ e.report.kind = "resolved"
       /\ (e.report.status = "complete" \/ e.report.session # "null")

\* A handler has entered the app area after a completed attempt.
C4_Witness ==
  /\ route \in AppArea
  /\ \E e \in entered : e.site = "handleSignIn" /\ e.report.status = "complete"

RedirectSites == {"WelcomeScreen", "AuthRoutesLayout"}

\* C5: whenever a handler calls router.replace into the app area, its
\* setActive({session}) call has already resolved.
C5_ActiveBeforeRedirect ==
  \A e \in entered : e.site \notin RedirectSites => e.active = "resolved"

AuthScreens == {"Stack", "Button:Welcome", "Button:Sign In", "Button:Create Account"}

\* C6: while isSignedIn is true the auth-group layout renders only the
\* redirect to '/(tabs)' and the welcome screen only the redirect to
\* '/(tabs)/home'; the welcome buttons and the auth screens are rendered
\* only while signed out.
C6_SignedInSeesOnlyRedirect ==
  /\ isSignedIn =>
       /\ route \in AuthGroup => view = {"Redirect:/(tabs)"}
       /\ route = "/" => view = {"Redirect:/(tabs)/home"}
  /\ view \cap AuthScreens # {} => ~isSignedIn

\* The session became active while an auth-group screen was on display.
C6_Witness == isSignedIn /\ route \in AuthGroup /\ view = {"Redirect:/(tabs)"}

\* C8: no rejected SDK promise escapes the callback that made the call.
C8_NoUnhandledRejection == unhandled = {}

\* C3: a user who had a verified e-mail address or phone number before the
\* first deletion still has one after any sequence of deletions.
C3_KeepsVerifiedContact == hadVerified => HasVerified(emails, phones)

\* C7: when handleConnectProvider has finished after creating an external
\* account whose connection did not complete (cancel, another non-success
\* result, or success without the provider among the reloaded accounts),
\* destroy() was called on it and isConnecting is false.
C7_PendingAccountDestroyed ==
  (/\ connect.pc = "done"
   /\ connect.created
   /\ \/ connect.result \in {"cancel", "dismiss", "locked"}
      \/ connect.result = "success" /\ ~connect.found)
    => (connect.destroyCalled /\ ~isConnecting)

\* continue.tsx: the FormInput names each step's view renders; FormInput shows
\* the error of its own field, and no view reads formState.errors.root.
StepView ==
  [ email  |-> {"email"},
    signin |-> {"password"},
    signup |-> {"firstName", "lastName", "password"},
    verify |-> {"code"} ]

\* The step whose view submits to each handler.
StepOf(handler) ==
  CASE handler = "handleSignIn" -> "signin"
    [] handler = "handleSignUp" -> "signup"
    [] OTHER -> "verify"

\* C11: when a submit handler of the continue screen ends on its own step,
\* every error it set on its form is on a field that step's view renders.
C11_ErrorsAreShown ==
  [][(RunEnds /\ route' = "/(auth)/continue" /\ authStep' = StepOf(HandlerOf(run.pc)))
       => formErrors'[FormOf(HandlerOf(run.pc))] \subseteq StepView[authStep']]_vars

\* A step in which handleSignUp's await of prepareEmailAddressVerification
\* resolves for a sign-up that was created with missing requirements.
PrepareResolves ==
  /\ run.pc = "signUp.prepare"
  /\ run.report.status = "missing_requirements"
  /\ sdkSignUp' = "prepared"

\* C12: the continue screen enters 'verify' exactly in the steps in which
\* prepareEmailAddressVerification resolves after signUp.create returned
\* 'missing_requirements'; a sign-up created 'complete' goes on to setActive
\* and, once that resolves, into the app without passing 'verify'; and
\* attemptEmailAddressVerification is called only on a sign-up whose
\* verification was prepared.
C12_VerifyWhenNeeded ==
  [][/\ (authStep # "verify" /\ authStep' = "verify") <=> PrepareResolves
     /\ (run.pc = "signUp.create" /\ run'.report.status = "complete")
          => run'.pc = "signUp.setActive"
     /\ (run.pc = "signUp.setActive" /\ run'.pc = "idle")
          => /\ authStep' = authStep
             /\ isSignedIn' => route' \in AppArea
     /\ run'.pc = "verify.attempt" => sdkSignUp' \in {"prepared", "verified"}]_vars

\* The verify step was entered and the code of a prepared sign-up submitted.
C12_Witness == authStep = "verify" /\ run.pc = "verify.attempt" /\ sdkSignUp = "prepared"

\* C13: pressing Resend on an e-mail verification step calls
\* prepare-verification again for the same pending sign-up or address, and
\* neither the press nor the settling of that call, resolved or rejected,
\* changes the step or modal visibility, the pending address or the entered
\* code.
C13_ResendLeavesStepAlone ==
  [][/\ pending'["continue.resend"] # pending["continue.resend"]
          => /\ pending'["continue.resend"] > pending["continue.resend"] => authStep = "verify"
             /\ authStep' = authStep
             /\ route' = route
             /\ userEmail' = userEmail
             /\ sdkSignUp' = sdkSignUp
             /\ code' = code
     /\ \A c \in Components :
          verification'[c].resends # verification[c].resends
            => /\ verification'[c].show = verification[c].show
               /\ verification'[c].pending = verification[c].pending
               /\ verification'[c].address = verification[c].address
               /\ verification'[c].code = verification[c].code
               /\ showAddEmailModal' = showAddEmailModal
               /\ verification'[c].resends > verification[c].resends
                    => /\ verification[c].pending # Null
                       /\ verification'[c].resendTarget = verification[c].pending]_vars

\* A resend of a modal has settled with 'Code Sent' while the modal is still
\* open on the same address with the typed code in place.
C13_Witness ==
  \E c \in Components :
    /\ verification[c].show
    /\ verification[c].code = "123456"
    /\ verification[c].pending # Null
    /\ verification[c].resendTarget = verification[c].pending
    /\ verification[c].resends = 0
    /\ alerts # <<>>
    /\ Head(alerts).text = "Code Sent"


\* C14: a successful save of the edit-profile form with the username field
\* left empty leaves the user without a username.
C14_EmptyUsernameRemoved ==
  [][(/\ updates # <<>>
      /\ updates' = Tail(updates)
      /\ Head(updates).data.username = ""
      /\ alerts' = Append(alerts, Saved))
        => user'.username = ""]_vars


\* C15: clerkUser.createPasskey() is in flight only if clerkUser exists with
\* createPasskey as a function, the mount-time support check has finished
\* with isPasskeySupported = true and, when clerkUser.isSupported exists,
\* isSupported('passkey') answered true in this handler run; the Add button
\* is enabled only when the support check is finished and found support.
C15_PasskeyOnlyWhenSupported ==
  /\ passkey.create = "createPasskey"
       => /\ passkey.clerkUser.exists /\ passkey.clerkUser.createPasskey
          /\ passkey.check = "done" /\ ~passkey.isCheckingSupport
          /\ passkey.isPasskeySupported
          /\ passkey.clerkUser.isSupported => passkey.isSupported = "true"
  /\ AddEnabled
       => /\ passkey.check = "done" /\ ~passkey.isCheckingSupport
          /\ passkey.isPasskeySupported

\* createPasskey is in flight after isSupported('passkey') answered true.
C15_Witness ==
  /\ passkey.create = "createPasskey"
  /\ passkey.isSupported = "true"
  /\ passkey.isCreatingPasskey


\* C16: at most one SDK request issued by the continue screen's own controls
\* (Continue, Sign In, Create Account, Verify Email, Resend code) is in
\* flight, and while one is pending these controls are disabled.
C16_OneRequestInFlight ==
  LET requests == (IF run.pc # "idle" THEN 1 ELSE 0) + pending["continue.resend"]
  IN /\ requests <= 1
     /\ requests >= 1 => isLoading


\* C17: every run of onSendResetEmail whose signIn.create call settles ends
\* with step = 'reset' or with an error set on the email form.
C17_ResetEmailRunEnds ==
  [][(/\ forgot.send = "signIn.create" /\ forgot'.send = "idle"
      /\ route = "/(auth)/forgot-password" /\ route' = route)
       => (forgot'.step = "reset" \/ forgot'.errors # {})]_vars

====
